---------------------------- MODULE Spec2Model ----------------------------
(***************************************************************************)
(* The elevator page's client script (static/main.js): the poll cycle       *)
(* (fetchState on a repeating timer), the click-triggered request           *)
(* (requestFloor), the renderer (renderState) and the bounded log (log).    *)
(*                                                                          *)
(* The script runs on one event loop.  fetchState and requestFloor are      *)
(* async functions: each suspends at its awaits and touches the shared      *)
(* state (latestState, the DOM) only in the synchronous stretch after its   *)
(* last await, so a call is in flight (in `calls`) from its dispatch until  *)
(* that stretch runs as one step.                                           *)
(*                                                                          *)
(* JavaScript values: a string is a string, a number a natural, an object   *)
(* a record.  A field that may be missing holds a sequence of length at     *)
(* most one: <<>> when the field is undefined (or null), <<v>> when it      *)
(* holds v.  The value null is the record Null.                             *)
(***************************************************************************)
EXTENDS Integers, Sequences, FiniteSets, TLC

VARIABLES
    latestState,  \* main.js:10  the slot: Null or the last parsed /state body
    view,         \* main.js:1-7 the elements renderState writes
    logLines,     \* main.js:8   the children of logEl, first child first
    logged,       \* every message log() was called with, in call order
    calls,        \* the fetchState / requestFloor calls in flight
    nextId,       \* ordinal of the next call dispatched
    pollBudget,   \* timer firings the model still allows
    clickBudget,  \* clicks the model still allows
    last          \* the call whose completion ran last, and its response

vars == <<latestState, view, logLines, logged, calls, nextId,
          pollBudget, clickBudget, last>>

---------------------------------------------------------------------------
(* Bounds of the model and constants of the program.                       *)

\* Timer firings after the startup poll.
MaxPolls == 1
\* Clicks on enabled floor buttons.
MaxClicks == 1
\* Floors of the snapshots every valid ElevatorState is drawn from.
MaxFloors == 3
\* main.js:18  the retention count of the log.
LogLimit == 80

---------------------------------------------------------------------------
(* JavaScript values.                                                      *)

Null == [null |-> TRUE]

Some(v) == <<v>>
None == <<>>

Digits == <<"0", "1", "2", "3", "4", "5", "6", "7", "8", "9">>

\* String(n) for a natural n: its decimal digits.
RECURSIVE Str(_)
Str(n) == IF n < 10 THEN Digits[n + 1]
          ELSE Str(n \div 10) \o Digits[(n % 10) + 1]

\* a || b on optional strings: a when it is present and not "", else b.
OrElseStr(a, b) == IF a # None /\ a[1] # "" THEN a[1] ELSE b

\* a || b where a is an optional object (an object is truthy) and b a value.
OrElseObj(a, b) == IF a # None THEN a[1] ELSE b

Reverse(s) == [i \in 1..Len(s) |-> s[Len(s) + 1 - i]]

---------------------------------------------------------------------------
(* ElevatorState snapshots, as the server's JSON delivers them.            *)

Direction(cur, target) ==
    IF target = None THEN "Idle"
    ELSE IF target[1] > cur THEN "Up" ELSE "Down"

\* The state with n floors, the car at cur, tag[f] the state of floor f and q
\* the pending requests in dispatch order.
MkState(n, cur, tag, q) ==
    LET moving == {f \in 1..n : tag[f] = "Moving"}
        target == IF moving = {} THEN None
                  ELSE Some(CHOOSE f \in moving : TRUE)
    IN [direction    |-> Direction(cur, target),
        currentFloor |-> cur,
        activeTarget |-> target,
        queue        |-> Some(q),
        numFloors    |-> n,
        floors       |-> Some([f \in 1..n |-> [floor |-> f, state |-> tag[f]]])]

\* The sequences that list each element of set S once.
Orderings(S) ==
    {q \in [1..Cardinality(S) -> S] : \A i, j \in DOMAIN q : q[i] = q[j] => i = j}

\* Every valid ElevatorState of at most MaxFloors floors: floors ascending,
\* exactly one floor Current (currentFloor), at most one Moving (activeTarget),
\* the queue listing the Queued and Moving floors.
ValidStates ==
    UNION {
      UNION {
        UNION {
          { MkState(n, cur, tag, q) :
              q \in Orderings({f \in 1..n : tag[f] \in {"Queued", "Moving"}}) }
          : tag \in { t \in [1..n -> {"Idle", "Queued", "Moving", "Current"}] :
                        /\ \A f \in 1..n : (t[f] = "Current") <=> (f = cur)
                        /\ Cardinality({f \in 1..n : t[f] = "Moving"}) <= 1 } }
        : cur \in 1..n }
      : n \in 1..MaxFloors }

\* Three snapshots of a three-floor building the polls and requests of Spec
\* are answered with: at rest on 1, leaving 1 for 3, passing 2 with 1 queued.
AtRest == MkState(3, 1, <<"Current", "Idle", "Idle">>, <<>>)
Leaving == MkState(3, 1, <<"Current", "Idle", "Moving">>, <<3>>)
Passing == MkState(3, 2, <<"Queued", "Current", "Moving">>, <<3, 1>>)
Snapshots == {AtRest, Leaving, Passing}

\* JSON objects that are no ElevatorState: one without `queue`, one without
\* `floors`.
NoQueue == [Leaving EXCEPT !.queue = None]
NoFloors == [Passing EXCEPT !.floors = None]
Malformed == {NoQueue, NoFloors}

---------------------------------------------------------------------------
(* HTTP responses.  A body is its text and, when the text is JSON, the     *)
(* value JSON.parse gives for it.                                         *)

TextBody(t) == [text |-> t, parsed |-> None]
JsonBody(t, v) == [text |-> t, parsed |-> Some(v)]

\* fetch() rejected: no response at all.
NetFail == [net |-> FALSE, ok |-> FALSE, statusText |-> "", body |-> TextBody("")]
Status(ok, statusText, body) ==
    [net |-> TRUE, ok |-> ok, statusText |-> statusText, body |-> body]

\* What GET /state is answered with.
PollResponses ==
    {NetFail,
     Status(FALSE, "Internal Server Error", TextBody("db down")),
     Status(TRUE, "OK", TextBody("<html>")),
     Status(TRUE, "OK", JsonBody("null", Null))}
    \cup {Status(TRUE, "OK", JsonBody("{state}", s)) : s \in Snapshots}
    \cup {Status(TRUE, "OK", JsonBody("{malformed}", s)) : s \in Malformed}

\* The JSON object POST /request is answered with.
Data(message, detail, state) ==
    [message |-> message, detail |-> detail, state |-> state]

RequestResponses ==
    {NetFail,
     Status(FALSE, "Bad Request",
            JsonBody("{detail}", Data(None, Some("floor out of range"), None))),
     Status(FALSE, "Bad Request", JsonBody("{}", Data(None, None, None))),
     Status(FALSE, "Bad Gateway", TextBody("<html>")),
     Status(FALSE, "Bad Gateway", TextBody("")),
     Status(TRUE, "OK", TextBody("<html>")),
     Status(TRUE, "OK", JsonBody("null", Null))}
    \cup {Status(TRUE, "OK", JsonBody("{message,state}", Data(m, None, s))) :
            m \in {None, Some("Queued")},
            s \in {None, Some(Leaving), Some(NoQueue)}}

\* String(err) for an error of class name with message msg.
ErrStr(name, msg) == IF msg = "" THEN name ELSE name \o ": " \o msg

NetErr == ErrStr("TypeError", "Failed to fetch")
JsonErr == ErrStr("SyntaxError", "Unexpected token")
NullErr == ErrStr("TypeError", "Cannot read properties of null")
QueueErr == ErrStr("TypeError", "Cannot read properties of undefined")
FloorsErr == ErrStr("TypeError", "state.floors is not iterable")

---------------------------------------------------------------------------
(* log(msg), main.js:12-19.                                                *)

\* The paragraph log() creates: textContent is "[time] msg".  The reading
\* of the clock is the ordinal of the log() call.
LogLine(time, msg) == [time |-> time, msg |-> msg]

\* Mutant of Log: no paragraph is ever removed.
LogKeepsAll(lines, time, msg) == <<LogLine(time, msg)>> \o lines

\* Mutant of Log: the paragraph is appended, and the first one removed.
LogAppends(lines, time, msg) ==
    LET all == lines \o <<LogLine(time, msg)>>
    IN IF Len(all) > LogLimit THEN Tail(all) ELSE all

\* logEl's children after log(msg): the new paragraph first, and the last
\* one removed when there are more than LogLimit.
Log(lines, time, msg) ==
    LET all == <<LogLine(time, msg)>> \o lines
    IN IF Len(all) > LogLimit THEN SubSeq(all, 1, Len(all) - 1) ELSE all

\* logEl's children after log() was called with each message of msgs in turn,
\* the first of them being call number time.
RECURSIVE LogAll(_, _, _)
LogAll(lines, time, msgs) ==
    IF msgs = <<>> THEN lines
    ELSE LogAll(Log(lines, time, Head(msgs)), time + 1, Tail(msgs))

---------------------------------------------------------------------------
(* renderState(state), main.js:49-79.                                      *)

\* The elements before the first render: no text, no children.
EmptyView ==
    [dir |-> "", current |-> "", target |-> "", queueSize |-> "",
     floorCount |-> "", chips |-> <<>>, floors |-> <<>>]

\* main.js:59-62
Chip(f) == [cls |-> "chip", text |-> "Queued: " \o Str(f)]

\* main.js:72-74  the state-specific class, if any.
StateClass(state) ==
    IF state = "Current" THEN {"state-current"}
    ELSE IF state = "Moving" THEN {"state-moving"}
    ELSE IF state = "Queued" THEN {"state-queued"}
    ELSE {}

\* Mutant of DisableStates: a queued floor stays enabled.
DisableStatesNoQueued == {"Moving", "Current"}

\* main.js:75
DisableStates == {"Queued", "Moving", "Current"}

\* main.js:68-76  the button of one FloorInfo; onclick's closure holds info.
Button(info) ==
    [cls      |-> {"floor"} \cup StateClass(info.state),
     text     |-> Str(info.floor),
     disabled |-> info.state \in DisableStates,
     info     |-> info]

\* Mutant of FloorButtons: the buttons are in the server's order.
FloorButtonsAscending(floors) == [i \in 1..Len(floors) |-> Button(floors[i])]

\* main.js:67-78  floorsEl's children: one button per FloorInfo, last first.
FloorButtons(floors) ==
    LET rev == Reverse(floors)
    IN [i \in 1..Len(rev) |-> Button(rev[i])]

\* main.js:58-63
QueueChips(queue) == [i \in 1..Len(queue) |-> Chip(queue[i])]

\* Mutant of RenderState: the chips and the buttons are added to those the
\* elements already hold (queueChipsEl and floorsEl are not emptied first).
RenderStateAccumulates(v, state) ==
    IF state = Null THEN [view |-> v, err |-> None]
    ELSE
      LET v1 == [v EXCEPT
                   !.dir = "Direction: " \o state.direction,
                   !.current = Str(state.currentFloor),
                   !.target = IF state.activeTarget = None THEN "-"
                              ELSE Str(state.activeTarget[1])]
      IN IF state.queue = None THEN [view |-> v1, err |-> Some(QueueErr)]
         ELSE
           LET v2 == [v1 EXCEPT
                        !.queueSize = Str(Len(state.queue[1])),
                        !.floorCount = Str(state.numFloors) \o " floors",
                        !.chips = v.chips \o QueueChips(state.queue[1])]
           IN IF state.floors = None
              THEN [view |-> v2, err |-> Some(FloorsErr)]
              ELSE [view |-> [v2 EXCEPT
                                !.floors = v.floors \o FloorButtons(state.floors[1])],
                    err |-> None]

\* Mutant of RenderState: an absent state empties the elements.
RenderStateClearsOnNull(v, state) ==
    IF state = Null THEN [view |-> EmptyView, err |-> None]
    ELSE
      LET v1 == [v EXCEPT
                   !.dir = "Direction: " \o state.direction,
                   !.current = Str(state.currentFloor),
                   !.target = IF state.activeTarget = None THEN "-"
                              ELSE Str(state.activeTarget[1])]
      IN IF state.queue = None THEN [view |-> v1, err |-> Some(QueueErr)]
         ELSE
           LET v2 == [v1 EXCEPT
                        !.queueSize = Str(Len(state.queue[1])),
                        !.floorCount = Str(state.numFloors) \o " floors",
                        !.chips = QueueChips(state.queue[1]),
                        !.floors = <<>>]
           IN IF state.floors = None
              THEN [view |-> v2, err |-> Some(FloorsErr)]
              ELSE [view |-> [v2 EXCEPT !.floors = FloorButtons(state.floors[1])],
                    err |-> None]

\* The elements after renderState(state), and the error it threw, if any.
RenderState(v, state) ==
    IF state = Null THEN [view |-> v, err |-> None]
    ELSE
      LET v1 == [v EXCEPT
                   !.dir = "Direction: " \o state.direction,
                   !.current = Str(state.currentFloor),
                   !.target = IF state.activeTarget = None THEN "-"
                              ELSE Str(state.activeTarget[1])]
      IN IF state.queue = None THEN [view |-> v1, err |-> Some(QueueErr)]
         ELSE
           LET v2 == [v1 EXCEPT
                        !.queueSize = Str(Len(state.queue[1])),
                        !.floorCount = Str(state.numFloors) \o " floors",
                        !.chips = QueueChips(state.queue[1]),
                        !.floors = <<>>]
           IN IF state.floors = None
              THEN [view |-> v2, err |-> Some(FloorsErr)]
              ELSE [view |-> [v2 EXCEPT !.floors = FloorButtons(state.floors[1])],
                    err |-> None]

---------------------------------------------------------------------------
(* fetchState(), main.js:21-31, from the response on.                      *)

\* main.js:23-25  the parsed body, or the error thrown on the way to it.
FetchData(resp) ==
    IF ~resp.net THEN [err |-> Some(NetErr), data |-> Null]
    ELSE IF ~resp.ok
         THEN [err |-> Some(ErrStr("Error", resp.body.text)), data |-> Null]
    ELSE IF resp.body.parsed = None THEN [err |-> Some(JsonErr), data |-> Null]
    ELSE [err |-> None, data |-> resp.body.parsed[1]]

\* Mutant of FetchStateEnd: a failed poll clears the slot.
FetchStateEndClears(ls, v, resp) ==
    LET got == FetchData(resp)
    IN IF got.err # None
       THEN [latestState |-> Null, view |-> v,
             msgs |-> <<"State error: " \o got.err[1]>>]
       ELSE LET r == RenderState(v, got.data)
            IN [latestState |-> got.data, view |-> r.view,
                msgs |-> IF r.err = None THEN <<>>
                         ELSE <<"State error: " \o r.err[1]>>]

\* Mutant of FetchStateEnd: the parsed body is rendered but not stored.
FetchStateEndNoStore(ls, v, resp) ==
    LET got == FetchData(resp)
    IN IF got.err # None
       THEN [latestState |-> ls, view |-> v,
             msgs |-> <<"State error: " \o got.err[1]>>]
       ELSE LET r == RenderState(v, got.data)
            IN [latestState |-> ls, view |-> r.view,
                msgs |-> IF r.err = None THEN <<>>
                         ELSE <<"State error: " \o r.err[1]>>]

\* The slot, the elements and the messages logged when fetchState ends.
FetchStateEnd(ls, v, resp) ==
    LET got == FetchData(resp)
    IN IF got.err # None
       THEN [latestState |-> ls, view |-> v,
             msgs |-> <<"State error: " \o got.err[1]>>]
       ELSE LET r == RenderState(v, got.data)
            IN [latestState |-> got.data, view |-> r.view,
                msgs |-> IF r.err = None THEN <<>>
                         ELSE <<"State error: " \o r.err[1]>>]

---------------------------------------------------------------------------
(* requestFloor(floor), main.js:33-47, from the response on.               *)

\* Mutant of RequestData: the status is never looked at.
RequestDataAnyStatus(resp) ==
    IF ~resp.net THEN [err |-> Some(NetErr), data |-> Null]
    ELSE IF resp.body.parsed = None THEN [err |-> Some(JsonErr), data |-> Null]
    ELSE LET data == resp.body.parsed[1]
         IN IF data = Null THEN [err |-> Some(NullErr), data |-> Null]
            ELSE [err |-> None, data |-> data]

\* main.js:35-41  the parsed body, or the error thrown on the way to it.
RequestData(resp) ==
    IF ~resp.net THEN [err |-> Some(NetErr), data |-> Null]
    ELSE IF resp.body.parsed = None THEN [err |-> Some(JsonErr), data |-> Null]
    ELSE LET data == resp.body.parsed[1]
         IN IF data = Null THEN [err |-> Some(NullErr), data |-> Null]
            ELSE IF ~resp.ok
                 THEN [err |-> Some(ErrStr("Error",
                                   OrElseStr(data.detail, resp.statusText))),
                       data |-> Null]
            ELSE [err |-> None, data |-> data]

\* Mutant of RequestFloorEnd: the default message is logged whatever the
\* server's message.
RequestFloorEndDefaultMessage(ls, v, floor, resp) ==
    LET got == RequestData(resp)
    IN IF got.err # None
       THEN [latestState |-> ls, view |-> v,
             msgs |-> <<"Request error: " \o got.err[1]>>]
       ELSE LET msg == "Requested floor " \o Str(floor)
                r == RenderState(v, OrElseObj(got.data.state, ls))
            IN [latestState |-> ls, view |-> r.view,
                msgs |-> IF r.err = None THEN <<msg>>
                         ELSE <<msg, "Request error: " \o r.err[1]>>]

\* The slot, the elements and the messages logged when requestFloor ends.
RequestFloorEnd(ls, v, floor, resp) ==
    LET got == RequestData(resp)
    IN IF got.err # None
       THEN [latestState |-> ls, view |-> v,
             msgs |-> <<"Request error: " \o got.err[1]>>]
       ELSE LET msg == OrElseStr(got.data.message, "Requested floor " \o Str(floor))
                r == RenderState(v, OrElseObj(got.data.state, ls))
            IN [latestState |-> ls, view |-> r.view,
                msgs |-> IF r.err = None THEN <<msg>>
                         ELSE <<msg, "Request error: " \o r.err[1]>>]

---------------------------------------------------------------------------
(* The page.                                                               *)

Call(id, op, floor) == [id |-> id, op |-> op, floor |-> floor]

NoCall == [call |-> Call(0, "none", 0), resp |-> NetFail]

\* main.js:81-82: the script has run; the first fetchState() is in flight and
\* the timer is armed.
Init ==
    /\ latestState = Null
    /\ view = EmptyView
    /\ logLines = <<>>
    /\ logged = <<>>
    /\ calls = {Call(1, "poll", 0)}
    /\ nextId = 2
    /\ pollBudget = MaxPolls
    /\ clickBudget = MaxClicks
    /\ last = NoCall

\* Mutant of Tick: the timer skips a firing while a call is in flight.
TickWhenIdle ==
    /\ pollBudget > 0
    /\ calls = {}
    /\ pollBudget' = pollBudget - 1
    /\ calls' = calls \cup {Call(nextId, "poll", 0)}
    /\ nextId' = nextId + 1
    /\ UNCHANGED <<latestState, view, logLines, logged, clickBudget, last>>

\* main.js:82  the timer fires: fetchState() runs up to its first await.
Tick ==
    /\ pollBudget > 0
    /\ pollBudget' = pollBudget - 1
    /\ calls' = calls \cup {Call(nextId, "poll", 0)}
    /\ nextId' = nextId + 1
    /\ UNCHANGED <<latestState, view, logLines, logged, clickBudget, last>>

\* main.js:71  the user clicks the i-th floor button; a disabled button
\* receives no click.  requestFloor(info.floor) runs up to its first await.
Click(i) ==
    /\ clickBudget > 0
    /\ ~view.floors[i].disabled
    /\ clickBudget' = clickBudget - 1
    /\ calls' = calls \cup {Call(nextId, "request", view.floors[i].info.floor)}
    /\ nextId' = nextId + 1
    /\ UNCHANGED <<latestState, view, logLines, logged, pollBudget, last>>

\* A handler's last synchronous stretch: the slot, the elements and the log.
Finish(c, resp, end) ==
    /\ latestState' = end.latestState
    /\ view' = end.view
    /\ logLines' = LogAll(logLines, Len(logged) + 1, end.msgs)
    /\ logged' = logged \o end.msgs
    /\ calls' = calls \ {c}
    /\ last' = [call |-> c, resp |-> resp]
    /\ UNCHANGED <<nextId, pollBudget, clickBudget>>

\* Mutant of PollCompletes: a sequence check drops the answer of a poll that
\* was dispatched before the poll whose answer was handled last.
PollCompletesInOrder(c, resp) ==
    LET stale == last.call.op = "poll" /\ last.call.id > c.id
        dropped == [latestState |-> latestState, view |-> view, msgs |-> <<>>]
    IN /\ c.op = "poll"
       /\ Finish(c, resp, IF stale THEN dropped
                                   ELSE FetchStateEnd(latestState, view, resp))

\* main.js:23-30  a fetchState call is answered and runs to its end.
PollCompletes(c, resp) ==
    /\ c.op = "poll"
    /\ Finish(c, resp, FetchStateEnd(latestState, view, resp))

\* Mutant of RequestCompletes: a request that failed is submitted again.
RequestCompletesRetries(c, resp) ==
    LET end == RequestFloorEnd(latestState, view, c.floor, resp)
        failed == RequestData(resp).err # None
    IN /\ c.op = "request"
       /\ latestState' = end.latestState
       /\ view' = end.view
       /\ logLines' = LogAll(logLines, Len(logged) + 1, end.msgs)
       /\ logged' = logged \o end.msgs
       /\ calls' = IF failed
                   THEN (calls \ {c}) \cup {Call(nextId, "request", c.floor)}
                   ELSE calls \ {c}
       /\ nextId' = IF failed THEN nextId + 1 ELSE nextId
       /\ last' = [call |-> c, resp |-> resp]
       /\ UNCHANGED <<pollBudget, clickBudget>>

\* main.js:35-46  a requestFloor call is answered and runs to its end.
RequestCompletes(c, resp) ==
    /\ c.op = "request"
    /\ Finish(c, resp, RequestFloorEnd(latestState, view, c.floor, resp))

Next ==
    \/ Tick
    \/ \E i \in DOMAIN view.floors : Click(i)
    \/ \E c \in calls, resp \in PollResponses : PollCompletes(c, resp)
    \/ \E c \in calls, resp \in RequestResponses : RequestCompletes(c, resp)

Spec == Init /\ [][Next]_vars

---------------------------------------------------------------------------
(* The page with a long history: the log near its retention count.         *)

\* The messages of k polls that each failed in transport.
PollFailures(k) == [i \in 1..k |-> "State error: " \o NetErr]

\* logEl's children after log() was called with each of msgs in turn, when
\* these are at most LogLimit: the last call's paragraph first, none removed.
PastLog(msgs) ==
    [i \in 1..Len(msgs) |-> LogLine(Len(msgs) + 1 - i, msgs[Len(msgs) + 1 - i])]

\* The page after its first k polls each failed in transport, poll k + 1 in
\* flight: nothing rendered yet, k messages logged.
InitLog ==
    \E k \in {0, LogLimit - 1, LogLimit} :
        /\ latestState = Null
        /\ view = EmptyView
        /\ logged = PollFailures(k)
        /\ logLines = PastLog(PollFailures(k))
        /\ calls = {Call(k + 1, "poll", 0)}
        /\ nextId = k + 2
        /\ pollBudget = MaxPolls
        /\ clickBudget = MaxClicks
        /\ last = IF k = 0 THEN NoCall
                  ELSE [call |-> Call(k, "poll", 0), resp |-> NetFail]

\* The answers of this page's server: polls fail in transport or with a
\* status, or succeed; requests fail with a status, or succeed with or
\* without a message, once with an embedded object that cannot be rendered
\* (two messages logged by one call).
LogPollResponses ==
    {NetFail,
     Status(FALSE, "Internal Server Error", TextBody("db down")),
     Status(TRUE, "OK", JsonBody("{state}", AtRest))}

LogRequestResponses ==
    {Status(FALSE, "Bad Request",
            JsonBody("{detail}", Data(None, Some("floor out of range"), None))),
     Status(TRUE, "OK", JsonBody("{}", Data(None, None, None))),
     Status(TRUE, "OK", JsonBody("{message}", Data(Some("Queued"), None, None))),
     Status(TRUE, "OK", JsonBody("{state}", Data(None, None, Some(NoQueue))))}

NextLog ==
    \/ Tick
    \/ \E i \in DOMAIN view.floors : Click(i)
    \/ \E c \in calls, resp \in LogPollResponses : PollCompletes(c, resp)
    \/ \E c \in calls, resp \in LogRequestResponses : RequestCompletes(c, resp)

LogSpec == InitLog /\ [][NextLog]_vars

---------------------------------------------------------------------------
(* The page polled by a well-behaved server: every poll is answered with   *)
(* a valid ElevatorState of at most MaxFloors floors.                      *)

ValidResponses == {Status(TRUE, "OK", JsonBody("{state}", s)) : s \in ValidStates}

NextRender ==
    \/ Tick
    \/ \E c \in calls, resp \in ValidResponses : PollCompletes(c, resp)

RenderSpec == Init /\ [][NextRender]_vars

---------------------------------------------------------------------------
(* The page with a timer that keeps firing.  setInterval is never cleared, *)
(* so a firing that is due happens: weak fairness of Tick.  Nothing makes  *)
(* the server answer: no fairness of the completions.  The server is the   *)
(* one of LogSpec: polls and requests fail and succeed.                    *)

FairSpec == Init /\ [][NextLog]_vars /\ WF_vars(Tick)

---------------------------------------------------------------------------
(* Properties.                                                             *)

\* The number of log() calls so far.
LogCalls == Len(logged)

Min(a, b) == IF a < b THEN a ELSE b

\* C1: the log never holds more than 80 entries, and after N appends to the
\* empty log it holds exactly min(N, 80) entries.
C1_LogBounded ==
    /\ Len(logLines) <= LogLimit
    /\ Len(logLines) = Min(LogCalls, LogLimit)

\* C1 witness: more than 80 messages were logged, by polls and by a request,
\* and the log holds 80.
C1_Witness ==
    /\ LogCalls > LogLimit
    /\ Len(logLines) = LogLimit
    /\ last.call.op = "request"

\* C2: the log is newest first and holds exactly the most recent min(N, 80)
\* messages: entry i is the (N + 1 - i)-th message logged.
C2_NewestFirst ==
    /\ Len(logLines) = Min(LogCalls, LogLimit)
    /\ \A i \in 1..Len(logLines) :
         logLines[i] = LogLine(LogCalls + 1 - i, logged[LogCalls + 1 - i])

\* C2 witness: the two oldest messages were evicted and the newest message,
\* unlike the one before it, is the head of the log.
C2_Witness ==
    /\ LogCalls = LogLimit + 2
    /\ logLines[1].msg = logged[LogCalls]
    /\ logLines[1].msg # logLines[2].msg
    /\ logLines[LogLimit].time = 3

---------------------------------------------------------------------------
(* What a step is, and what a response is, in the words of the claims.     *)

\* In this step a call of kind op is answered and runs to its end.
Ends(op) == last'.call \in calls /\ last'.call.op = op

\* The response is one of the three failures: no response at all, a status
\* that is not a success, a body that is not JSON.
TransportFailure(resp) == ~resp.net
BadStatus(resp) == resp.net /\ ~resp.ok
NotJson(resp) == resp.net /\ resp.body.parsed = None

\* A JSON value that has the shape of an ElevatorState.
WellFormed(s) == s # Null /\ s.queue # None /\ s.floors # None

\* The elements display snapshot s: the status fields, one chip per queued
\* floor in queue order, one button per FloorInfo, last FloorInfo first.
Shows(v, s) ==
    LET q == s.queue[1]
        fl == s.floors[1]
    IN /\ v.dir = "Direction: " \o s.direction
       /\ v.current = Str(s.currentFloor)
       /\ v.target = (IF s.activeTarget = None THEN "-" ELSE Str(s.activeTarget[1]))
       /\ v.queueSize = Str(Len(q))
       /\ v.floorCount = Str(s.numFloors) \o " floors"
       /\ Len(v.chips) = Len(q)
       /\ \A i \in 1..Len(q) : v.chips[i].text = "Queued: " \o Str(q[i])
       /\ Len(v.floors) = Len(fl)
       /\ \A i \in 1..Len(fl) :
            /\ v.floors[i].info = fl[Len(fl) + 1 - i]
            /\ v.floors[i].text = Str(fl[Len(fl) + 1 - i].floor)

\* The step appends exactly the one message msg to the log, at its head.
LogsOnly(msg) ==
    /\ logged' = logged \o <<msg>>
    /\ Head(logLines') = LogLine(Len(logged'), msg)

\* The failure of a poll, as the log describes it.
PollFailureText(resp) ==
    IF TransportFailure(resp) THEN "TypeError: Failed to fetch"
    ELSE IF BadStatus(resp) THEN "Error: " \o resp.body.text
    ELSE "SyntaxError: Unexpected token"

\* C3: when a poll fails (transport failure, non-success status, or a body
\* that is not JSON), one log entry describing the error is appended (for a
\* non-success status it holds the body text) and LatestState keeps its value.
C3_PollFailureKeepsState ==
    [][ (Ends("poll") /\ (\/ TransportFailure(last'.resp)
                          \/ BadStatus(last'.resp)
                          \/ NotJson(last'.resp)))
        => /\ latestState' = latestState
           /\ LogsOnly("State error: " \o PollFailureText(last'.resp)) ]_vars

\* C3 witness: a poll was answered HTTP 500 "db down" after an earlier poll
\* had stored a snapshot: the log's head holds "db down", the slot the snapshot.
C3_Witness ==
    /\ last.call.op = "poll"
    /\ BadStatus(last.resp)
    /\ logLines # <<>>
    /\ logLines[1].msg = "State error: Error: db down"
    /\ latestState \in Snapshots

\* C4: when a poll succeeds with a snapshot, LatestState becomes that
\* snapshot, the view displays it, and the log is left as it was.
C4_PollSuccess ==
    [][ (/\ Ends("poll")
         /\ last'.resp.net /\ last'.resp.ok
         /\ last'.resp.body.parsed # None
         /\ WellFormed(last'.resp.body.parsed[1]))
        => /\ latestState' = last'.resp.body.parsed[1]
           /\ Shows(view', last'.resp.body.parsed[1])
           /\ logLines' = logLines
           /\ logged' = logged ]_vars

\* C4 witness: a poll succeeded over an older snapshot and a non-empty log:
\* the slot and the view hold the new snapshot, the log its old entry.
C4_Witness ==
    /\ last.call.op = "poll"
    /\ last.call.id > 1
    /\ last.resp.ok
    /\ last.resp.body.parsed = Some(Passing)
    /\ latestState = Passing
    /\ Shows(view, Passing)
    /\ Len(logLines) = 1

\* The response is a success carrying a JSON object.
Succeeded(resp) ==
    /\ resp.net /\ resp.ok
    /\ resp.body.parsed # None
    /\ resp.body.parsed[1] # Null

\* C5: whenever a request completes successfully with an embedded state
\* payload, LatestState holds that embedded state (also when a poll dispatched
\* after the request has already stored a newer snapshot).
C5_RequestStateStored ==
    (/\ last.call.op = "request"
     /\ Succeeded(last.resp)
     /\ last.resp.body.parsed[1].state # None
     /\ WellFormed(last.resp.body.parsed[1].state[1]))
    => latestState = last.resp.body.parsed[1].state[1]

\* C6: when a request for floor N succeeds, one log entry is appended, its
\* text the server's message if there is one and "Requested floor N" if not,
\* and the view displays the response's embedded state if there is one, and
\* otherwise the unchanged LatestState (nothing changes if that is absent).
\* The state rendered is an ElevatorState: a JSON object of another shape
\* (embedded, or left in the slot by a poll) is not what the claim is about.
C6_RequestSuccess ==
    [][ (/\ Ends("request")
         /\ Succeeded(last'.resp)
         /\ LET data == last'.resp.body.parsed[1]
            IN IF data.state # None THEN WellFormed(data.state[1])
               ELSE latestState = Null \/ WellFormed(latestState))
        => LET data == last'.resp.body.parsed[1]
           IN /\ LogsOnly(IF data.message # None THEN data.message[1]
                          ELSE "Requested floor " \o Str(last'.call.floor))
              /\ IF data.state # None THEN Shows(view', data.state[1])
                 ELSE /\ latestState' = latestState
                      /\ IF latestState = Null THEN view' = view
                         ELSE Shows(view', latestState) ]_vars

\* C6 witness: a request for floor 3 succeeded with an embedded state and no
\* message: the log's head is the default text, the view displays the
\* embedded state.
C6_Witness ==
    /\ last.call.op = "request"
    /\ last.call.floor = 3
    /\ Succeeded(last.resp)
    /\ last.resp.body.parsed[1] = Data(None, None, Some(Leaving))
    /\ logLines[1].msg = "Requested floor 3"
    /\ Shows(view, Leaving)

\* The errors a failed request is logged with.
RequestFailureTexts ==
    {"TypeError: Failed to fetch", "SyntaxError: Unexpected token",
     "TypeError: Cannot read properties of null",
     "Error: floor out of range", "Error: Bad Request", "Error: Bad Gateway"}

\* C7: when a request fails (transport failure, non-success status, or a body
\* that is not JSON), one log line is appended and nothing else changes: the
\* view and LatestState are as they were.
C7_RequestFailure ==
    [][ (Ends("request") /\ (\/ TransportFailure(last'.resp)
                             \/ BadStatus(last'.resp)
                             \/ NotJson(last'.resp)))
        => /\ view' = view
           /\ latestState' = latestState
           /\ \E e \in RequestFailureTexts : LogsOnly("Request error: " \o e) ]_vars

\* C7 witness: a request was answered HTTP 400 with a detail while the view
\* displayed a snapshot: the detail is the log's head, the view still displays
\* the snapshot.
C7_Witness ==
    /\ last.call.op = "request"
    /\ BadStatus(last.resp)
    /\ logLines[1].msg = "Request error: Error: floor out of range"
    /\ latestState = AtRest
    /\ Shows(view, AtRest)

\* C8: for every request answered with a non-success status, the logged
\* detail is the body's `detail` field when the body has one and the status
\* text otherwise, whatever the body: JSON, empty or not JSON.
C8_DetailOrStatusText ==
    (last.call.op = "request" /\ BadStatus(last.resp))
    => /\ logLines # <<>>
       /\ logLines[1].msg =
            "Request error: Error: " \o
              (IF /\ last.resp.body.parsed # None
                  /\ last.resp.body.parsed[1] # Null
                  /\ last.resp.body.parsed[1].detail # None
               THEN last.resp.body.parsed[1].detail[1]
               ELSE last.resp.statusText)

\* C9: in every view a floor button is enabled if and only if its FloorInfo
\* is Idle; a click dispatches exactly one request, carrying the floor of an
\* enabled (Idle) button, and a request is dispatched by nothing else.
C9_ClickableIffIdle ==
    /\ [](\A i \in DOMAIN view.floors :
            ~view.floors[i].disabled <=> view.floors[i].info.state = "Idle")
    /\ [][ (clickBudget' # clickBudget \/ \E c \in calls' \ calls : c.op = "request")
           => \E i \in DOMAIN view.floors, c \in calls' :
                /\ view.floors[i].info.state = "Idle"
                /\ ~view.floors[i].disabled
                /\ c.op = "request"
                /\ c.floor = view.floors[i].info.floor
                /\ c \notin calls
                /\ calls' = calls \cup {c} ]_vars

\* C9 witness: a request for floor 2 is in flight, dispatched from a view in
\* which floor 2 is Idle, floor 3 Moving and floor 1 Current.
C9_Witness ==
    /\ \E c \in calls : c.op = "request" /\ c.floor = 2
    /\ Shows(view, Leaving)

\* C10: for every valid ElevatorState, the rendered view has exactly
\* numFloors floor buttons, labelled numFloors down to 1, and the button
\* labelled currentFloor is disabled and tagged Current.
C10_FloorButtons ==
    last.call.op = "poll"
    => LET s == last.resp.body.parsed[1]
           n == s.numFloors
       IN /\ Len(view.floors) = n
          /\ \A i \in 1..n : view.floors[i].text = Str(n + 1 - i)
          /\ \E i \in 1..n : view.floors[i].text = Str(s.currentFloor)
          /\ \A i \in 1..n :
               view.floors[i].text = Str(s.currentFloor)
               => /\ view.floors[i].disabled
                  /\ "state-current" \in view.floors[i].cls

\* C10 witness: a three-floor state with the car on 2 was rendered over an
\* earlier view: buttons 3, 2, 1, the second disabled, the first enabled.
C10_Witness ==
    /\ last.call.op = "poll"
    /\ last.call.id = 2
    /\ latestState.numFloors = 3
    /\ latestState.currentFloor = 2
    /\ view.floors[1].text = "3"
    /\ ~view.floors[1].disabled
    /\ view.floors[2].disabled
    /\ view.floors[3].text = "1"


\* C11: rendering does not accumulate: whatever was rendered before (another
\* state, or the same state), the elements after rendering state S are those
\* of rendering S once onto the empty view.
C11_RenderIdempotent ==
    last.call.op = "poll"
    => view = RenderState(EmptyView, last.resp.body.parsed[1]).view

\* C11 witness: two polls were rendered one after the other, the second a
\* state with two queued floors: the view holds two chips and three buttons.
C11_Witness ==
    /\ last.call.op = "poll"
    /\ nextId = 3
    /\ calls = {}
    /\ latestState.numFloors = 3
    /\ Len(view.chips) = 2
    /\ Len(view.floors) = 3

\* C12: rendering an absent state changes nothing.  renderState gets an absent
\* state from a poll whose JSON body is null, and from a successful request
\* without embedded state while LatestState is absent.
C12_AbsentStateNoOp ==
    [][ (\/ /\ Ends("poll")
            /\ last'.resp.net /\ last'.resp.ok
            /\ last'.resp.body.parsed = Some(Null)
         \/ /\ Ends("request")
            /\ Succeeded(last'.resp)
            /\ last'.resp.body.parsed[1].state = None
            /\ latestState = Null)
        => view' = view ]_vars

\* C12 witness: a poll was answered with the JSON body null after a snapshot
\* had been rendered: the slot is absent, the view still displays the snapshot.
C12_Witness ==
    /\ last.call.op = "poll"
    /\ last.resp.body.parsed = Some(Null)
    /\ latestState = Null
    /\ Shows(view, Leaving)


Clicks == MaxClicks - clickBudget
RequestsDispatched == (nextId - 1) - (1 + (MaxPolls - pollBudget))

\* C14: a failed request is not resubmitted: the requests dispatched are as
\* many as the clicks on enabled buttons, and a step dispatches a request if
\* and only if it is a click, and then one; a completion, failed or not,
\* dispatches none.
C14_NoResubmission ==
    /\ [](RequestsDispatched = Clicks)
    /\ [][ Cardinality({c \in calls' \ calls : c.op = "request"})
             = (IF clickBudget' # clickBudget THEN 1 ELSE 0) ]_vars

\* C14 witness: the one request clicked for has failed, as has a poll, and
\* no call is in flight: one click, one request dispatched.
C14_Witness ==
    /\ last.call.op = "request"
    /\ BadStatus(last.resp)
    /\ Len(logged) >= 2
    /\ calls = {}
    /\ Clicks = 1
    /\ RequestsDispatched = 1


\* The response of a poll is a success carrying an ElevatorState.
PollSnapshot(resp) ==
    /\ resp.net /\ resp.ok
    /\ resp.body.parsed # None
    /\ WellFormed(resp.body.parsed[1])

\* C15: overlapping polls are not coalesced, not cancelled and not checked
\* for sequence: the timer dispatches a poll while others are in flight, a
\* call leaves only by completing, a poll succeeding while another is in
\* flight is stored and shown, and when a poll succeeds after a poll that
\* was dispatched later has succeeded, LatestState and the view go from the
\* later poll's snapshot to the earlier poll's.
C15_LastCompletionWins ==
    /\ [][ \A c \in calls \ calls' : c = last'.call ]_vars
    /\ [][ (pollBudget' # pollBudget /\ \E c \in calls : c.op = "poll")
           => calls' \ calls # {} /\ calls \subseteq calls' ]_vars
    /\ [][ (/\ Ends("poll")
            /\ PollSnapshot(last'.resp)
            /\ \E c \in calls' : c.op = "poll")
           => /\ latestState' = last'.resp.body.parsed[1]
              /\ Shows(view', last'.resp.body.parsed[1]) ]_vars
    /\ [][ (/\ Ends("poll")
            /\ PollSnapshot(last'.resp)
            /\ last.call.op = "poll"
            /\ last.call.id > last'.call.id
            /\ PollSnapshot(last.resp))
           => /\ latestState = last.resp.body.parsed[1]
              /\ latestState' = last'.resp.body.parsed[1]
              /\ Shows(view', last'.resp.body.parsed[1]) ]_vars

\* C15 witness: the startup poll and the timer's poll overlapped; the
\* timer's poll was answered first, with the lift at rest (floor 3 was
\* clicked on that view and its request is still in flight), and the startup
\* poll was answered last, with the snapshot of the lift leaving for 3: the
\* slot and the view hold the snapshot of the poll dispatched first.
C15_Witness ==
    /\ last.call = Call(1, "poll", 0)
    /\ last.resp.ok
    /\ last.resp.body.parsed = Some(Leaving)
    /\ latestState = Leaving
    /\ Shows(view, Leaving)
    /\ pollBudget = 0
    /\ logged = <<>>
    /\ \A c \in calls : c.op = "request" /\ c.floor = 3
    /\ calls # {}


\* C16: every error becomes a single log line at its call site: a completed
\* request appends exactly one entry to the log, a completed poll at most
\* one, also when the state payload is no ElevatorState and rendering fails.
C16_OneLogLinePerCall ==
    [][ /\ Ends("request") => Len(logged') = Len(logged) + 1
        /\ Ends("poll") => Len(logged') <= Len(logged) + 1 ]_vars


\* C17: in every reachable state where LatestState holds a snapshot, the
\* view shows exactly that snapshot, after any interleaving of poll and
\* request completions.
C17_ViewShowsLatestState ==
    WellFormed(latestState) => Shows(view, latestState)


\* C18: once LatestState has been set to a snapshot, no later completion of
\* a poll or of a request makes it absent again, whatever the response.
C18_NeverAbsentAgain ==
    [][ latestState # Null => latestState' # Null ]_vars

\* C19: whenever handling a poll response ends by logging a "State error"
\* entry, that poll leaves LatestState and the view as they were: a 2xx
\* response that is JSON but no ElevatorState is not stored and does not
\* leave the view partially redrawn.
C19_StateErrorChangesNothing ==
    [][ (Ends("poll") /\ Len(logged') > Len(logged))
        => /\ latestState' = latestState
           /\ view' = view ]_vars

===========================================================================
